---- MODULE Spec2Model ----
(***************************************************************************)
(* Fragment reassembly and validated decompression of tardocbill-decoder.  *)
(*                                                                         *)
(* A JavaScript string is a sequence of one-character strings.  The        *)
(* payload alphabet stands for the base64 alphabet ("a", "b"), the base64  *)
(* padding character "=", white space (" ", TAB, CR, LF) and a character   *)
(* outside the base64 alphabet ("!").  A decoded Buffer is represented by  *)
(* the sequence of alphabet symbols that produced it; the raw-DEFLATE      *)
(* streams the inflater accepts are those of the Docs table.               *)
(***************************************************************************)
EXTENDS Integers, Sequences, FiniteSets, TLC

----------------------------------------------------------------------------
(* Bounds of the model *)

\* Largest number of padding spaces appended to the last fragment of a series.
MaxPad == 1

\* Largest number of unrelated, unaddressed codes found beside a series.
MaxNoise == 4

\* Largest length of a free text cut into three codes.
MaxText == 4

\* Largest number of places by which the spatial order of the codes is
\* shifted against their scan order.
MaxShift == 1

----------------------------------------------------------------------------
(* JavaScript strings *)

SP == " "
TAB == "\t"
CR == "\r"
LF == "\n"
EQ == "="
BANG == "!"

\* White space as String.prototype.trim / trimEnd and the regex class \s see it.
WhiteSpace == {SP, TAB, CR, LF}

\* The class [\r\n].
CRLF == {CR, LF}

\* Stand-ins for the 64 symbols of the base64 alphabet.
B64Alphabet == {"a", "b"}

SetMax(S) == CHOOSE m \in S : \A x \in S : x <= m

SetMin(S) == CHOOSE m \in S : \A x \in S : m <= x

\* String.prototype.trimEnd
TrimEnd(s) ==
    LET keep == {i \in 1..Len(s) : s[i] \notin WhiteSpace}
    IN  IF keep = {} THEN <<>> ELSE SubSeq(s, 1, SetMax(keep))

\* String.prototype.trimStart
TrimStart(s) ==
    LET keep == {i \in 1..Len(s) : s[i] \notin WhiteSpace}
    IN  IF keep = {} THEN <<>> ELSE SubSeq(s, SetMin(keep), Len(s))

\* String.prototype.trim
Trim(s) == TrimStart(TrimEnd(s))

\* String.prototype.startsWith
StartsWith(s, p) == Len(s) >= Len(p) /\ SubSeq(s, 1, Len(p)) = p

\* String.prototype.includes for a one-character needle
Includes(s, c) == \E i \in 1..Len(s) : s[i] = c

\* s.replace(/[\r\n]/g, '')
StripCRLF(s) == SelectSeq(s, LAMBDA c : c \notin CRLF)

\* s.replace(/[\r\n\s]/g, '')
StripAllWhiteSpace(s) == SelectSeq(s, LAMBDA c : c \notin WhiteSpace)

\* Array.prototype.join('') of an array of strings
RECURSIVE Join(_)
Join(ss) == IF ss = <<>> THEN <<>> ELSE Head(ss) \o Join(Tail(ss))

----------------------------------------------------------------------------
(* Buffer.from(s, 'base64') and pako.inflateRaw *)

\* Buffer.from(s, 'base64') never throws: decoding stops at the first "=",
\* and every character outside the alphabet (white space included) is skipped.
BufferFromBase64(s) ==
    LET eqs  == {i \in 1..Len(s) : s[i] = EQ}
        upto == IF eqs = {} THEN s ELSE SubSeq(s, 1, SetMin(eqs) - 1)
    IN  SelectSeq(upto, LAMBDA c : c \in B64Alphabet)

\* The documents of the model: the inflated text and its base64 text
\* (the encoded raw-DEFLATE stream).
XmlText   == <<"<", "?", "x", "m", "l">>
WsXmlText == <<LF, "<", "?", "x", "m", "l">>
TagText   == <<"<", "h">>
PlainText == <<"h", "<">>

Docs ==
    { [text |-> XmlText,   enc |-> <<"a", "a", "b", "a", "b", "=">>],
      [text |-> WsXmlText, enc |-> <<"a", "b", "b", "a", "a", "b">>],
      [text |-> TagText,   enc |-> <<"b", "a", "b", "b", "a", "a">>],
      [text |-> PlainText, enc |-> <<"b", "b", "a", "b", "a", "b">>] }

Failed == [ok |-> FALSE]

\* pako.inflateRaw(bytes, {to: 'string'}): the text of the stream, or a throw
\* (no result) when the bytes are not a complete raw-DEFLATE stream.
InflateRaw(bytes) ==
    IF \E d \in Docs : BufferFromBase64(d.enc) = bytes
    THEN [ok |-> TRUE,
          text |-> (CHOOSE d \in Docs : BufferFromBase64(d.enc) = bytes).text]
    ELSE Failed

----------------------------------------------------------------------------
(* Decoded QR codes and the batches the program is run on *)

\* getStructuredAppendInfo returns null for a code without a
\* 'structuredappend' chunk.
NullSA == [currentSequence |-> -1, totalSequence |-> -1]

\* getStructuredAppendInfo: the chunk's currentSequence and totalSequence
\* (the parity byte is copied and never read).
SAInfo(cur, total) == [currentSequence |-> cur, totalSequence |-> total]

\* One decoded code: its text and its Structured Append information.
Code(data, sa) == [data |-> data, structuredAppend |-> sa]

\* The codes without the filter.
StructuredCodes_unfiltered(qrCodes) == qrCodes

\* qrCodes.filter(qr => qr.isStructuredAppend)
StructuredCodes(qrCodes) ==
    SelectSeq(qrCodes, LAMBDA qr : qr.structuredAppend # NullSA)

\* s followed by n spaces.
PadSpaces(s, n) == s \o [i \in 1..n |-> SP]

\* Every way to cut s into k non-empty pieces.
RECURSIVE Splits(_, _)
Splits(s, k) ==
    IF k = 1
    THEN IF s = <<>> THEN {} ELSE {<<s>>}
    ELSE UNION { { <<SubSeq(s, 1, i)>> \o rest :
                     rest \in Splits(SubSeq(s, i + 1, Len(s)), k - 1) } :
                 i \in 1..(Len(s) - (k - 1)) }

\* A fully addressed series: fragment i (0-based) of k carries sequence
\* index i and total k - 1; the last one is padded with pad spaces.
Series(pieces, pad) ==
    LET k == Len(pieces)
    IN  [i \in 1..k |->
           Code(IF i = k THEN PadSpaces(pieces[i], pad) ELSE pieces[i],
                SAInfo(i - 1, k - 1))]

\* The series without its fragment r (1-based position).
Without(series, r) ==
    [i \in 1..(Len(series) - 1) |-> IF i < r THEN series[i] ELSE series[i + 1]]

\* The series with the addressing of the fragments in S lost.
Stripped(series, S) ==
    [i \in 1..Len(series) |->
        IF i \in S THEN Code(series[i].data, NullSA) ELSE series[i]]

\* The codes in the order p (a permutation of their positions).
Reorder(codes, p) == [i \in 1..Len(codes) |-> codes[p[i]]]

\* A code that belongs to no series: unaddressed, not base64.
NoiseCode == Code(<<BANG>>, NullSA)

\* The codes of base with unrelated codes found at the positions P of the scan.
WithNoise(base, P) ==
    [i \in 1..(Len(base) + Cardinality(P)) |->
        IF i \in P THEN NoiseCode
        ELSE base[i - Cardinality({j \in P : j < i})]]

\* What the scanner delivers of a series: all of it ("complete"), all but
\* the fragment at one position ("removed"), all of it with the addressing
\* of every fragment lost ("unaddressed", series of up to four fragments),
\* or with the addressing of the fragment at one position lost ("mixed",
\* series of two or three fragments); a series of up to three fragments
\* with the fragment at one position scanned twice ("duplicated"), or a
\* series of two or three fragments in which the fragment at one position
\* declares a total one higher ("raisedTotal") or one lower
\* ("loweredTotal") than the others.
Delivery(kind, at, codes) == [kind |-> kind, at |-> at, codes |-> codes]

\* The series with fragment j followed by a second copy of itself.
Duplicated(series, j) ==
    [i \in 1..(Len(series) + 1) |-> IF i <= j THEN series[i] ELSE series[i - 1]]

\* The series with the declared total of fragment j changed by delta.
Retotalled(series, j, delta) ==
    [i \in 1..Len(series) |->
        IF i = j
        THEN Code(series[i].data,
                  SAInfo(series[i].structuredAppend.currentSequence,
                         series[i].structuredAppend.totalSequence + delta))
        ELSE series[i]]

Deliveries(series) ==
    {Delivery("complete", 0, series)}
      \cup {Delivery("removed", r, Without(series, r)) :
              r \in {i \in 1..Len(series) : Len(series) >= 2}}
      \cup {Delivery("unaddressed", 0, Stripped(series, 1..Len(series))) :
              x \in {i \in {1} : Len(series) <= 4}}
      \cup {Delivery("mixed", j, Stripped(series, {j})) :
              j \in {i \in 1..Len(series) : Len(series) \in 2..3}}
      \cup {Delivery("duplicated", j, Duplicated(series, j)) :
              j \in {i \in 1..Len(series) : Len(series) <= 3}}
      \cup {Delivery("raisedTotal", j, Retotalled(series, j, 1)) :
              j \in {i \in 1..Len(series) : Len(series) \in 2..3}}
      \cup {Delivery("loweredTotal", j, Retotalled(series, j, -1)) :
              j \in {i \in 1..Len(series) : Len(series) \in 2..3}}

\* The positions at which unrelated codes are scanned: none, or one to
\* MaxNoise of them beside a whole series of three fragments padded by
\* MaxPad, with or without its addressing.
NoisePositions(delivery, pad) ==
    {{}} \cup
    IF /\ Len(delivery.codes) = 3 /\ pad = MaxPad
       /\ delivery.kind \in {"complete", "unaddressed"}
    THEN UNION { {Q \in SUBSET (1..(3 + q)) : Cardinality(Q) = q} : q \in 1..MaxNoise }
    ELSE {}

\* Where a batch comes from: the document, the number of fragments it was
\* cut into, the padding of the last one, what was delivered of the series
\* and the number of unrelated codes scanned with it.
Origin(d, k, pad, delivery, P) ==
    [doc |-> d, k |-> k, pad |-> pad, kind |-> delivery.kind,
     at |-> delivery.at, noise |-> Cardinality(P)]

\* The batches a run is given: a document's base64 text cut into one to six
\* fragments, the last one padded, delivered in any scan order.
IsBatch(b, o) ==
    \E d \in Docs, k \in 1..6, pad \in 0..MaxPad :
      \E pieces \in Splits(d.enc, k) :
        \E delivery \in Deliveries(Series(pieces, pad)) :
          \E p \in Permutations(1..Len(delivery.codes)) :
            \E P \in NoisePositions(delivery, pad) :
              /\ b = WithNoise(Reorder(delivery.codes, p), P)
              /\ o = Origin(d, k, pad, delivery, P)

\* The characters of a free text: a base64 symbol and white space.
TextAlphabet == {"a", SP, TAB, CR, LF}

\* A batch of three unaddressed codes holding the pieces of a free text of
\* three to MaxText characters.
IsTextBatch(b, o) ==
    \E n \in 3..MaxText :
      \E s \in [1..n -> TextAlphabet] :
        \E pieces \in Splits(SubSeq(s, 1, n), 3) :
          /\ b = [i \in 1..3 |-> Code(pieces[i], NullSA)]
          /\ o = [doc |-> [text |-> <<>>, enc |-> Join(pieces)], k |-> 3,
                  pad |-> 0, kind |-> "text", at |-> 0, noise |-> 0]

\* The batch of a run in which no source yielded a code.
IsEmptyBatch(b, o) ==
    /\ b = <<>>
    /\ o = [doc |-> [text |-> <<>>, enc |-> <<>>], k |-> 0,
            pad |-> 0, kind |-> "empty", at |-> 0, noise |-> 0]

----------------------------------------------------------------------------
(* Array helpers *)

\* Array.prototype.map(qr => qr.data)
DataOf(codes) == [i \in 1..Len(codes) |-> codes[i].data]

\* Array.prototype.sort with the comparator (a, b) => key(a) - key(b): the
\* sort is stable, so an element moves behind those with a smaller key and
\* behind the earlier ones with the same key.
SortedPlace(keys, i) ==
    1 + Cardinality({j \in 1..Len(keys) :
                       keys[j] < keys[i] \/ (keys[j] = keys[i] /\ j < i)})

StableSort(items, keys) ==
    [r \in 1..Len(items) |->
        items[CHOOSE i \in 1..Len(items) : SortedPlace(keys, i) = r]]

\* The codes left in scan order.
SortBySequence_unsorted(codes) == codes

\* structuredCodes.sort((a, b) => a.structuredAppend.currentSequence
\*                              - b.structuredAppend.currentSequence)
SortBySequence(codes) ==
    StableSort(codes, [i \in 1..Len(codes) |-> codes[i].structuredAppend.currentSequence])

\* The loop  for (i = 0; i < expectedTotal; i++) if (!sequences.includes(i)) push(i)
RECURSIVE MissingFrom(_, _, _)
MissingFrom(i, expectedTotal, sequences) ==
    IF i >= expectedTotal THEN <<>>
    ELSE (IF i \in sequences THEN <<>> ELSE <<i>>)
         \o MissingFrom(i + 1, expectedTotal, sequences)

\* The same loop run up to totalSequence instead of totalSequence + 1.
MissingSequences_belowTotal(sorted) ==
    MissingFrom(0, sorted[1].structuredAppend.totalSequence,
                {sorted[i].structuredAppend.currentSequence : i \in 1..Len(sorted)})

\* The same loop run up to the total declared by the last sorted fragment.
MissingSequences_lastTotal(sorted) ==
    MissingFrom(0, sorted[Len(sorted)].structuredAppend.totalSequence + 1,
                {sorted[i].structuredAppend.currentSequence : i \in 1..Len(sorted)})

MissingSequences(sorted) ==
    MissingFrom(0, sorted[1].structuredAppend.totalSequence + 1,
                {sorted[i].structuredAppend.currentSequence : i \in 1..Len(sorted)})

\* The combination with the white space at its end removed.
CombinedData_trimmed(sorted) == TrimEnd(Join(DataOf(sorted)))

\* structuredCodes.map(qr => qr.data).join('')
CombinedData(sorted) == Join(DataOf(sorted))

----------------------------------------------------------------------------
(* decodeStructuredAppend *)

\* decodeStructuredAppend trimming the texts it joins when no code is
\* addressed.
decodeStructuredAppend_trimPlain(qrCodes) ==
    LET structuredCodes == StructuredCodes(qrCodes)
    IN  IF Len(structuredCodes) = 0
        THEN [isStructuredAppend |-> FALSE,
              totalCodes         |-> Len(qrCodes),
              decodedData        |-> Trim(Join(DataOf(qrCodes))),
              codes              |-> qrCodes]
        ELSE LET sorted  == SortBySequence(structuredCodes)
                 missing == MissingSequences(sorted)
             IN  [isStructuredAppend |-> TRUE,
                  totalCodes         |-> Len(sorted),
                  expectedTotal      |-> sorted[1].structuredAppend.totalSequence + 1,
                  missingSequences   |-> missing,
                  complete           |-> Len(missing) = 0,
                  decodedData        |-> CombinedData(sorted),
                  codes              |-> sorted]

decodeStructuredAppend(qrCodes) ==
    LET structuredCodes == StructuredCodes(qrCodes)
    IN  IF Len(structuredCodes) = 0
        THEN [isStructuredAppend |-> FALSE,
              totalCodes         |-> Len(qrCodes),
              decodedData        |-> Join(DataOf(qrCodes)),
              codes              |-> qrCodes]
        ELSE LET sorted  == SortBySequence(structuredCodes)
                 missing == MissingSequences(sorted)
             IN  [isStructuredAppend |-> TRUE,
                  totalCodes         |-> Len(sorted),
                  expectedTotal      |-> sorted[1].structuredAppend.totalSequence + 1,
                  missingSequences   |-> missing,
                  complete           |-> Len(missing) = 0,
                  decodedData        |-> CombinedData(sorted),
                  codes              |-> sorted]

\* saveDecodedData, fs.writeFile: a file of the run: not written, or written with a content.
NoFile == [written |-> FALSE, content |-> <<>>]

File(content) == [written |-> TRUE, content |-> content]

\* index.js, decodeMultipleAndSave(imagePaths, outputPath): the result of
\* decodeStructuredAppend, its decodedData saved to outputPath.
decodeMultipleAndSave(qrCodes) ==
    LET result == decodeStructuredAppend(qrCodes)
    IN  [result |-> result, outputFile |-> File(result.decodedData)]

----------------------------------------------------------------------------
(* processDeflatedData *)

\* decompressed.trim().startsWith('<?xml') || decompressed.trim().startsWith('<')
IsXML(decompressed) ==
    \/ StartsWith(Trim(decompressed), <<"<", "?", "x", "m", "l">>)
    \/ StartsWith(Trim(decompressed), <<"<">>)

\* base64Data.replace(/[\r\n\s]/g, '').trim()
CleanBase64(base64Data) == Trim(StripAllWhiteSpace(base64Data))

\* processDeflatedData(base64Data, outputPath); toXmlPath tells whether
\* outputPath ends with '.xml'.  Every throw inside is rethrown as one Error.
processDeflatedData(base64Data, toXmlPath) ==
    LET cleanedBase64 == CleanBase64(base64Data)
        binaryData    == BufferFromBase64(cleanedBase64)
        inflated      == InflateRaw(binaryData)
    IN  IF ~inflated.ok
        THEN [threw |-> TRUE, failedAt |-> "inflateRaw",
              cleanedBase64 |-> cleanedBase64,
              outputFile |-> NoFile, xmlFile |-> NoFile]
        ELSE [threw            |-> FALSE,
              cleanedBase64    |-> cleanedBase64,
              originalBytes    |-> Len(binaryData),
              decompressedChars |-> Len(inflated.text),
              decompressedData |-> inflated.text,
              isXML            |-> IsXML(inflated.text),
              outputFile       |-> File(inflated.text),
              xmlFile          |-> IF IsXML(inflated.text) /\ ~toXmlPath
                                   THEN File(inflated.text) ELSE NoFile]

----------------------------------------------------------------------------
(* detectStructuredAppendOrder *)

\* qrCodes.map((qr, i) => ({qr, index: i, length: qr.data.length}))
\*        .sort((a, b) => b.length - a.length): the positions of the codes,
\* longest first (positions are 1-based here, 0-based in the source).
SortByLength(qrCodes) ==
    StableSort([i \in 1..Len(qrCodes) |-> i],
               [i \in 1..Len(qrCodes) |-> 0 - Len(qrCodes[i].data)])

\* The list with its last order replaced by a repetition of the first.
TestOrders_fiveDistinct(sorted) ==
    << <<sorted[2], sorted[1], sorted[3]>>,
       <<sorted[1], sorted[2], sorted[3]>>,
       <<sorted[2], sorted[3], sorted[1]>>,
       <<sorted[3], sorted[1], sorted[2]>>,
       <<sorted[3], sorted[2], sorted[1]>>,
       <<sorted[2], sorted[1], sorted[3]>> >>

\* The list of eight orders of analyzeQRData: the six orders of the first
\* three codes, then two orders by length.
TestOrders_eight(sorted) ==
    << <<1, 2, 3>>, <<2, 3, 1>>, <<3, 1, 2>>,
       <<3, 2, 1>>, <<2, 1, 3>>, <<1, 3, 2>>,
       <<sorted[2], sorted[1], sorted[3]>>,
       <<sorted[1], sorted[2], sorted[3]>> >>

\* The six orders of the three longest codes, in the order they are tried.
TestOrders(sorted) ==
    << <<sorted[2], sorted[1], sorted[3]>>,
       <<sorted[1], sorted[2], sorted[3]>>,
       <<sorted[2], sorted[3], sorted[1]>>,
       <<sorted[3], sorted[1], sorted[2]>>,
       <<sorted[3], sorted[2], sorted[1]>>,
       <<sorted[1], sorted[3], sorted[2]>> >>

\* order.map(i => qrCodes[i].data).join('').replace(/[\r\n]/g, '').trimEnd()
CombineInOrder(qrCodes, order) ==
    TrimEnd(StripCRLF(Join([i \in 1..Len(order) |-> qrCodes[order[i]].data])))

\* decompressed.trim().startsWith('<?xml')
StartsWithProlog(decompressed) ==
    StartsWith(Trim(decompressed), <<"<", "?", "x", "m", "l">>)

\* The body of the loop for one order: the candidate is accepted when its
\* combination inflates and the text starts with the XML prolog; a throw of
\* inflateRaw is caught and the candidate is passed over.
TryOrder(qrCodes, order) ==
    LET combined == CombineInOrder(qrCodes, order)
        inflated == InflateRaw(BufferFromBase64(combined))
    IN  [accepted         |-> inflated.ok /\ StartsWithProlog(inflated.text),
         combinedData     |-> combined,
         decompressedData |-> IF inflated.ok THEN inflated.text ELSE <<>>]

\* The loop with its try around it: the first failing order ends the search.
TestFrom_stopAtFailure(qrCodes, testOrders, c) ==
    LET try == TryOrder(qrCodes, testOrders[c])
    IN  [threw |-> FALSE, found |-> try.accepted,
         order |-> IF try.accepted THEN testOrders[c] ELSE <<>>,
         combinedData |-> IF try.accepted THEN try.combinedData ELSE <<>>,
         decompressedData |-> IF try.accepted THEN try.decompressedData ELSE <<>>,
         tested |-> SubSeq(testOrders, 1, c)]

\* for (const order of testOrders) { ... return {...} ... } return null
RECURSIVE TestFrom(_, _, _)
TestFrom(qrCodes, testOrders, c) ==
    IF c > Len(testOrders)
    THEN [threw |-> FALSE, found |-> FALSE, order |-> <<>>,
          combinedData |-> <<>>, decompressedData |-> <<>>,
          tested |-> testOrders]
    ELSE LET try == TryOrder(qrCodes, testOrders[c])
         IN  IF try.accepted
             THEN [threw |-> FALSE, found |-> TRUE, order |-> testOrders[c],
                   combinedData |-> try.combinedData,
                   decompressedData |-> try.decompressedData,
                   tested |-> SubSeq(testOrders, 1, c)]
             ELSE TestFrom(qrCodes, testOrders, c + 1)

\* The search returning null for fewer than three codes.
detectStructuredAppendOrder_nullForFew(qrCodes) ==
    IF Len(qrCodes) < 3
    THEN [threw |-> FALSE, found |-> FALSE, order |-> <<>>,
          combinedData |-> <<>>, decompressedData |-> <<>>, tested |-> <<>>]
    ELSE TestFrom(qrCodes, TestOrders(SortByLength(qrCodes)), 1)

\* With fewer than three codes sorted[1] or sorted[2] is undefined and
\* building testOrders throws a TypeError, outside the loop's try.
detectStructuredAppendOrder(qrCodes) ==
    IF Len(qrCodes) < 3
    THEN [threw |-> TRUE, found |-> FALSE, order |-> <<>>,
          combinedData |-> <<>>, decompressedData |-> <<>>, tested |-> <<>>]
    ELSE TestFrom(qrCodes, TestOrders(SortByLength(qrCodes)), 1)

----------------------------------------------------------------------------
(* extract_qr.ts: the jsQR fallback *)

\* One entry of parseStructuredAppendQRCodes: the 1-based spatial position
\* of the code, the fixed total 4, and the code's text.
StructuredAppendQR(position, data) ==
    [position |-> position, total |-> 4, data |-> data]

\* parseStructuredAppendQRCodes for codes whose spatial order is their scan
\* order shifted by shift places.
parseStructuredAppendQRCodes(qrCodes, shift) ==
    [i \in 1..Len(qrCodes) |->
        StructuredAppendQR(((i - 1 + shift) % Len(qrCodes)) + 1, qrCodes[i].data)]

\* structuredAppendData.sort((a, b) => a.position - b.position), the texts
\* appended in that order, then trimEnd()
combineStructuredAppendData(structuredAppendData) ==
    LET sortedData ==
          StableSort(structuredAppendData,
                     [i \in 1..Len(structuredAppendData) |->
                         structuredAppendData[i].position])
    IN  TrimEnd(Join(DataOf(sortedData)))

----------------------------------------------------------------------------
(* main, for a PDF *)

\* allData += qr.data + '\n' for every code without Structured Append
RECURSIVE AllData(_)
AllData(qrCodes) ==
    IF qrCodes = <<>> THEN <<>>
    ELSE (IF Head(qrCodes).structuredAppend = NullSA
          THEN Head(qrCodes).data \o <<LF>> ELSE <<>>)
         \o AllData(Tail(qrCodes))

NotCalled == [threw |-> FALSE, called |-> FALSE]

\* What main leaves behind: its exit status, the branch that ended it, the
\* <pdf>.xml and <pdf>.base64 files, and what it printed about the series.
MainResult(exit, path, xml, base64, detect, sorted, oracle) ==
    [exit |-> exit, path |-> path, xml |-> xml, base64 |-> base64,
     detect |-> detect, structuredAppendCodes |-> sorted,
     expectedTotal |-> IF sorted = <<>> THEN 0
                       ELSE sorted[1].structuredAppend.totalSequence + 1,
     missingSequences |-> IF sorted = <<>> THEN <<>> ELSE MissingSequences(sorted),
     complete |-> IF sorted = <<>> THEN FALSE
                  ELSE Len(MissingSequences(sorted)) = 0,
     oracle |-> oracle]

\* main giving up on a series that has sequences missing.
main_abortIncomplete(qrCodes) ==
    LET structuredAppendCodes == StructuredCodes(qrCodes)
        detect == IF Len(qrCodes) = 3
                  THEN detectStructuredAppendOrder(qrCodes) ELSE NotCalled
        sorted == SortBySequence(structuredAppendCodes)
        structuredData == CombinedData(sorted)
        oracle == processDeflatedData(structuredData, TRUE)
    IN  IF Len(qrCodes) = 0
        THEN MainResult(1, "noCodes", NoFile, NoFile, NotCalled, <<>>, NotCalled)
        ELSE IF Len(qrCodes) = 3 /\ detect.found
        THEN MainResult(0, "detected", File(detect.decompressedData),
                        File(detect.combinedData), detect, <<>>, NotCalled)
        ELSE IF Len(structuredAppendCodes) > 0
        THEN IF Len(MissingSequences(sorted)) > 0
             THEN MainResult(1, "structured", NoFile, NoFile, detect, sorted,
                             NotCalled)
             ELSE MainResult(0, "structured", oracle.outputFile,
                             File(structuredData), detect, sorted, oracle)
        ELSE MainResult(0, "individual", NoFile,
                        File(Trim(AllData(qrCodes))), detect, <<>>, NotCalled)

\* main taking the sort-by-index path first and searching for an order
\* only when that path's inflation failed.
main_exactFirst(qrCodes) ==
    LET structuredAppendCodes == StructuredCodes(qrCodes)
        detect == IF Len(qrCodes) = 3
                  THEN detectStructuredAppendOrder(qrCodes) ELSE NotCalled
        sorted == SortBySequence(structuredAppendCodes)
        structuredData == CombinedData(sorted)
        oracle == processDeflatedData(structuredData, TRUE)
    IN  IF Len(qrCodes) = 0
        THEN MainResult(1, "noCodes", NoFile, NoFile, NotCalled, <<>>, NotCalled)
        ELSE IF Len(structuredAppendCodes) > 0 /\ ~oracle.threw
        THEN MainResult(0, "structured", oracle.outputFile,
                        File(structuredData), NotCalled, sorted, oracle)
        ELSE IF Len(qrCodes) = 3 /\ detect.found
        THEN MainResult(0, "detected", File(detect.decompressedData),
                        File(detect.combinedData), detect, <<>>, NotCalled)
        ELSE IF Len(structuredAppendCodes) > 0
        THEN MainResult(0, "structured", oracle.outputFile,
                        File(structuredData), detect, sorted, oracle)
        ELSE MainResult(0, "individual", NoFile,
                        File(Trim(AllData(qrCodes))), detect, <<>>, NotCalled)

main(qrCodes) ==
    LET structuredAppendCodes == StructuredCodes(qrCodes)
        detect == IF Len(qrCodes) = 3
                  THEN detectStructuredAppendOrder(qrCodes) ELSE NotCalled
        sorted == SortBySequence(structuredAppendCodes)
        structuredData == CombinedData(sorted)
        oracle == processDeflatedData(structuredData, TRUE)
    IN  IF Len(qrCodes) = 0
        THEN MainResult(1, "noCodes", NoFile, NoFile, NotCalled, <<>>, NotCalled)
        ELSE IF Len(qrCodes) = 3 /\ detect.found
        THEN MainResult(0, "detected", File(detect.decompressedData),
                        File(detect.combinedData), detect, <<>>, NotCalled)
        ELSE IF Len(structuredAppendCodes) > 0
        THEN MainResult(0, "structured", oracle.outputFile,
                        File(structuredData), detect, sorted, oracle)
        ELSE MainResult(0, "individual", NoFile,
                        File(Trim(AllData(qrCodes))), detect, <<>>, NotCalled)

----------------------------------------------------------------------------
VARIABLES
    origin,     \* the document and the series the batch was made from
    batch,      \* the decoded codes the run is given, in scan order
    pc,         \* "start", or the operation that has run
    result,     \* what the operation returned, wrote or threw
    files,      \* the page images in the temporary directories
    invocation  \* the extractions in flight, each with its position

vars == <<origin, batch, pc, result, files, invocation>>

\* The image file does not exist.
NoImage == [exists |-> FALSE]

\* The image file pictures the first page of the document d.
ImageOf(d) == [exists |-> TRUE, doc |-> d]

\* <cwd>/tmp/page_poppler.png of extract_qr and ./pdf_temp/page-000.png of
\* decodeQRCodesFromPDF, before any extraction.
NoFiles == [page_poppler |-> NoImage, page_000 |-> NoImage]

\* The extractions that run at the same time.
Invocations == {1, 2}

\* No extraction is in flight.
NoInvocations == [i \in Invocations |-> [pc |-> "idle"]]

NoResult == [kind |-> "none"]

Init ==
    /\ \/ IsBatch(batch, origin)
       \/ IsTextBatch(batch, origin)
       \/ IsEmptyBatch(batch, origin)
    /\ files = NoFiles
    /\ invocation = NoInvocations
    /\ pc = "start"
    /\ result = NoResult

\* node decode.js <document.pdf>
Main ==
    /\ pc = "start"
    /\ pc' = "main"
    /\ result' = main(batch)
    /\ UNCHANGED <<origin, batch, files, invocation>>

\* decodeStructuredAppend(imagePaths), every image holding one code
DecodeStructuredAppend ==
    /\ pc = "start"
    /\ pc' = "decodeStructuredAppend"
    /\ result' = decodeStructuredAppend(batch)
    /\ UNCHANGED <<origin, batch, files, invocation>>

\* detectStructuredAppendOrder(qrCodes)
DetectStructuredAppendOrder ==
    /\ pc = "start"
    /\ pc' = "detectStructuredAppendOrder"
    /\ result' = detectStructuredAppendOrder(batch)
    /\ UNCHANGED <<origin, batch, files, invocation>>

\* processDeflatedData(data, outputPath) on the codes' texts joined in scan
\* order, for an output path that ends with '.xml' or one that does not
ProcessDeflatedData ==
    /\ pc = "start"
    /\ pc' = "processDeflatedData"
    /\ \E toXmlPath \in BOOLEAN :
          result' = [input |-> Join(DataOf(batch)), toXmlPath |-> toXmlPath,
                     out |-> processDeflatedData(Join(DataOf(batch)), toXmlPath)]
    /\ UNCHANGED <<origin, batch, files, invocation>>

\* decodeMultipleAndSave(imagePaths, outputPath)
DecodeMultipleAndSave ==
    /\ pc = "start"
    /\ pc' = "decodeMultipleAndSave"
    /\ result' = decodeMultipleAndSave(batch)
    /\ UNCHANGED <<origin, batch, files, invocation>>

\* combineStructuredAppendData(parseStructuredAppendQRCodes(largeQRCodes)),
\* reached when at least one code was parsed
CombineStructuredAppendData ==
    /\ pc = "start"
    /\ Len(batch) > 0
    /\ pc' = "combineStructuredAppendData"
    /\ \E shift \in 0..MaxShift :
          LET structuredAppendData == parseStructuredAppendQRCodes(batch, shift)
          IN  result' = [structuredAppendData |-> structuredAppendData,
                         combinedData |->
                             combineStructuredAppendData(structuredAppendData)]
    /\ UNCHANGED <<origin, batch, files, invocation>>

Next ==
    \/ Main
    \/ DecodeStructuredAppend
    \/ DetectStructuredAppendOrder
    \/ ProcessDeflatedData
    \/ CombineStructuredAppendData
    \/ DecodeMultipleAndSave

Spec == Init /\ [][Next]_vars

----------------------------------------------------------------------------
(* Extractions running at the same time *)

\* The texts of the codes pictured on the first page of the document d.
PageCodes(d) == <<d.enc>>

\* extract_qr, the zbarimg path on the texts zbarimg printed: joined,
\* trimEnd(), Buffer.from(.., 'base64'), pako.inflateRaw; the inflated text
\* is returned as it is.
zbarPath(qrDataArray) ==
    LET combinedData == TrimEnd(Join(qrDataArray))
        inflated     == InflateRaw(BufferFromBase64(combinedData))
    IN  [threw   |-> ~inflated.ok,
         xmlData |-> IF inflated.ok THEN inflated.text ELSE <<>>]

\* A call that has not run yet.
Started(fn, d) == [pc |-> "start", fn |-> fn, pdfPath |-> d]

\* Two calls for different documents, of extract_qr or of
\* decodeQRCodesFromPDF with its default options.
InitConcurrent ==
    /\ IsEmptyBatch(batch, origin)
    /\ pc = "concurrent"
    /\ result = NoResult
    /\ files = NoFiles
    /\ \E f1, f2 \in {"extract_qr", "decodeQRCodesFromPDF"} :
         \E d1, d2 \in Docs :
           /\ d1 # d2
           /\ invocation = [i \in Invocations |->
                               IF i = 1 THEN Started(f1, d1) ELSE Started(f2, d2)]

\* extract_qr up to its first await: pdftoppm -singlefile writes
\* tmp/page_poppler.png, then Jimp.read is awaited.
ExtractQrConvert(i) ==
    /\ invocation[i].pc = "start"
    /\ invocation[i].fn = "extract_qr"
    /\ files' = [files EXCEPT !.page_poppler = ImageOf(invocation[i].pdfPath)]
    /\ invocation' = [invocation EXCEPT ![i].pc = "Jimp.read"]
    /\ UNCHANGED <<origin, batch, pc, result>>

\* extract_qr after the await: zbarimg scans tmp/page_poppler.png as it is
\* now, and the zbarimg path returns what it inflates.
ExtractQrScan(i) ==
    /\ invocation[i].pc = "Jimp.read"
    /\ files.page_poppler.exists
    /\ LET out == zbarPath(PageCodes(files.page_poppler.doc))
       IN  invocation' =
             [invocation EXCEPT
                ![i] = [pc |-> IF out.threw THEN "fallback" ELSE "returned",
                        fn |-> @.fn, pdfPath |-> @.pdfPath,
                        xmlData |-> out.xmlData]]
    /\ UNCHANGED <<origin, batch, pc, result, files>>

\* decodeQRCodesFromPDF: convert writes ./pdf_temp/page-000.png, then
\* fs.readdir is awaited.
PdfConvert(i) ==
    /\ invocation[i].pc = "start"
    /\ invocation[i].fn = "decodeQRCodesFromPDF"
    /\ files' = [files EXCEPT !.page_000 = ImageOf(invocation[i].pdfPath)]
    /\ invocation' = [invocation EXCEPT ![i].pc = "readdir"]
    /\ UNCHANGED <<origin, batch, pc, result>>

\* decodeQRCodesFromPDF: the directory is listed; without a page image the
\* call throws 'No images were generated from the PDF'.
PdfReaddir(i) ==
    /\ invocation[i].pc = "readdir"
    /\ invocation' =
          [invocation EXCEPT
             ![i].pc = IF files.page_000.exists THEN "scan" ELSE "threw"]
    /\ UNCHANGED <<origin, batch, pc, result, files>>

\* decodeQRCodesFromPDF: findMultipleQRCodesInImage reads the page image as
\* it is now; an image that is gone is an error of the page, caught with a
\* warning, and the page gives no code.
PdfScan(i) ==
    /\ invocation[i].pc = "scan"
    /\ invocation' =
          [invocation EXCEPT
             ![i] = [pc |-> "cleanup", fn |-> @.fn, pdfPath |-> @.pdfPath,
                     qrCodes |-> IF files.page_000.exists
                                 THEN PageCodes(files.page_000.doc)
                                 ELSE <<>>]]
    /\ UNCHANGED <<origin, batch, pc, result, files>>

\* decodeQRCodesFromPDF: cleanupImages unlinks the page image (a failure
\* to delete is a warning) and the codes are returned.
PdfCleanup(i) ==
    /\ invocation[i].pc = "cleanup"
    /\ files' = [files EXCEPT !.page_000 = NoImage]
    /\ invocation' = [invocation EXCEPT ![i].pc = "returned"]
    /\ UNCHANGED <<origin, batch, pc, result>>

NextConcurrent ==
    \E i \in Invocations :
        \/ ExtractQrConvert(i)
        \/ ExtractQrScan(i)
        \/ PdfConvert(i)
        \/ PdfReaddir(i)
        \/ PdfScan(i)
        \/ PdfCleanup(i)

SpecConcurrent == InitConcurrent /\ [][NextConcurrent]_vars

\* ---------------------------------------------------------------------
\* Sources that yield no symbol
\* ---------------------------------------------------------------------

\* decodeQRCode's result for an image: the code found, or null.
NoSymbol == [found |-> FALSE, qrData |-> Code(<<>>, NullSA)]
Symbol(qrData) == [found |-> TRUE, qrData |-> qrData]

\* findMultipleQRCodesInImage's result for a page image: the codes found
\* (possibly none), or an error.
Page(pageQRCodes) == [threw |-> FALSE, pageQRCodes |-> pageQRCodes]
FailedPage == [threw |-> TRUE, pageQRCodes |-> <<>>]

\* The loop of decodeStructuredAppend leaving at the first image without a
\* code.
RECURSIVE ScanImages_break(_)
ScanImages_break(imagePaths) ==
    IF imagePaths = <<>> \/ ~Head(imagePaths).found
    THEN [qrCodes |-> <<>>,
          warnings |-> IF imagePaths = <<>> THEN 0 ELSE 1]
    ELSE LET rest == ScanImages_break(Tail(imagePaths))
         IN  [qrCodes |-> <<Head(imagePaths).qrData>> \o rest.qrCodes,
              warnings |-> rest.warnings]

\* The loop of decodeStructuredAppend over imagePaths: an image without a
\* code gets a warning and is passed over, a code found is pushed.
RECURSIVE ScanImages(_)
ScanImages(imagePaths) ==
    IF imagePaths = <<>>
    THEN [qrCodes |-> <<>>, warnings |-> 0]
    ELSE LET rest == ScanImages(Tail(imagePaths))
         IN  IF ~Head(imagePaths).found
             THEN [qrCodes |-> rest.qrCodes, warnings |-> rest.warnings + 1]
             ELSE [qrCodes |-> <<Head(imagePaths).qrData>> \o rest.qrCodes,
                   warnings |-> rest.warnings]

\* The page loop of decodeQRCodesFromPDF: the codes of a page are pushed
\* in their order on the page, a page that raises gets a warning and is
\* passed over, a page without codes adds nothing.
RECURSIVE ScanPages(_)
ScanPages(imageFiles) ==
    IF imageFiles = <<>>
    THEN [allQRCodes |-> <<>>, warnings |-> 0]
    ELSE LET rest == ScanPages(Tail(imageFiles))
         IN  IF Head(imageFiles).threw
             THEN [allQRCodes |-> rest.allQRCodes,
                   warnings |-> rest.warnings + 1]
             ELSE [allQRCodes |->
                       Head(imageFiles).pageQRCodes \o rest.allQRCodes,
                   warnings |-> rest.warnings]

\* decodeQRCodesFromPDF's result for the page images.
decodeQRCodesFromPDF(imageFiles) ==
    LET scan == ScanPages(imageFiles)
    IN  [totalPages |-> Len(imageFiles),
         totalQRCodes |-> Len(scan.allQRCodes),
         qrCodes |-> scan.allQRCodes,
         warnings |-> scan.warnings]

\* seq with x put in after its first at elements.
InsertAt(seq, at, x) ==
    SubSeq(seq, 1, at) \o <<x>> \o SubSeq(seq, at + 1, Len(seq))

\* decodeStructuredAppend(imagePaths): one image for every code of the
\* batch, and among them one image in which no code is found
DecodeStructuredAppendImages ==
    /\ pc = "start"
    /\ pc' = "decodeStructuredAppendImages"
    /\ \E at \in 0..Len(batch) :
          LET imagePaths ==
                  InsertAt([i \in 1..Len(batch) |-> Symbol(batch[i])],
                           at, NoSymbol)
              scan == ScanImages(imagePaths)
          IN  result' = [imagePaths |-> imagePaths,
                         warnings |-> scan.warnings,
                         out |-> decodeStructuredAppend(scan.qrCodes)]
    /\ UNCHANGED <<origin, batch, files, invocation>>

\* node decode.js <document.pdf>: the codes of the batch one on a page and
\* among the pages one whose scan raises, or all codes on one page next to
\* a page without a code
MainPages ==
    /\ pc = "start"
    /\ pc' = "mainPages"
    /\ \E onePage \in BOOLEAN :
          LET pages == IF onePage THEN <<Page(batch)>>
                       ELSE [i \in 1..Len(batch) |-> Page(<<batch[i]>>)]
              bad == IF onePage THEN Page(<<>>) ELSE FailedPage
          IN  \E at \in 0..Len(pages) :
                LET imageFiles == InsertAt(pages, at, bad)
                    pdfResult == decodeQRCodesFromPDF(imageFiles)
                IN  result' = [imageFiles |-> imageFiles,
                               pdfResult |-> pdfResult,
                               out |-> main(pdfResult.qrCodes)]
    /\ UNCHANGED <<origin, batch, files, invocation>>

NextSources ==
    \/ DecodeStructuredAppendImages
    \/ MainPages

SpecSources == Init /\ [][NextSources]_vars

\* ---------------------------------------------------------------------
\* extract_qr.ts and index.ts: one page image, zbarimg, then jsQR
\* ---------------------------------------------------------------------

\* The most codes jsQR finds on the page.
MaxLocated == 3

\* Where the top-left corner of a code can be, in pixels.
Xs == {0, 600, 1200}
Ys == {0, 100, 200}

\* The estimated sizes of a code: below and above the filter's 400 pixels.
Sizes == {300, 500}

\* A code as jsQR returns it: its text, its top-left corner, and the
\* smaller of its width and height.
Located(data, x, y, size) ==
    [data |-> data,
     location |-> [topLeftCorner |-> [x |-> x, y |-> y], size |-> size]]

\* extractQRCodesFromImage takes a code for a duplicate when its top-left
\* corner is less than 200 pixels from one it already has.
IsDuplicate(a, b) ==
    LET dx == a.location.topLeftCorner.x - b.location.topLeftCorner.x
        dy == a.location.topLeftCorner.y - b.location.topLeftCorner.y
    IN  dx * dx + dy * dy < 200 * 200

\* The document's encoding cut into n texts: n - 1 single characters and
\* the rest.
Pieces(d, n) ==
    [i \in 1..n |-> IF i < n THEN <<d.enc[i]>>
                    ELSE SubSeq(d.enc, n, Len(d.enc))]

\* One line of zbarimg's output: 'QR-Code:data', or a symbol of another
\* kind.
Line(prefix, data) == [prefix |-> prefix, data |-> data]

Reversed(seq) == [i \in 1..Len(seq) |-> seq[Len(seq) + 1 - i]]

\* What zbarimg does on the page: it exits with an error, prints nothing,
\* prints no QR line, prints the texts in reading order (after a barcode
\* line), or prints them in the opposite order.
ZbarKinds == {"error", "empty", "noQrLine", "inOrder", "reversed"}

ZbarOutput(kind, texts) ==
    LET qrLines == [i \in 1..Len(texts) |-> Line("QR-Code:", texts[i])]
        barcode == <<Line("EAN-13:", <<"a">>)>>
    IN  [failed |-> kind = "error",
         lines  |-> IF kind \in {"error", "empty"} THEN <<>>
                    ELSE IF kind = "noQrLine" THEN barcode
                    ELSE IF kind = "inOrder" THEN barcode \o qrLines
                    ELSE Reversed(qrLines)]

\* The page image of a run of extract_qr: whether a conversion produced it,
\* what zbarimg prints for it, and the codes jsQR locates in it, at most
\* one of them below the size filter.
IsExtractImage(b, o) ==
    \E d \in Docs, n \in 0..MaxLocated, kind \in ZbarKinds \cup {"noImage"} :
      \E xs \in [1..n -> Xs], ys \in [1..n -> Ys], small \in 0..1 :
        LET texts == Pieces(d, n)
            qrCodes == [i \in 1..n |->
                           Located(texts[i], xs[i], ys[i],
                                   IF i = small THEN SetMin(Sizes)
                                   ELSE SetMax(Sizes))]
        IN  /\ small <= n
            /\ \A i, j \in 1..n : i # j => ~IsDuplicate(qrCodes[i], qrCodes[j])
            /\ b = [converted |-> kind # "noImage",
                    zbar |-> ZbarOutput(kind, texts),
                    qrCodes |-> qrCodes]
            /\ o = [doc |-> d, k |-> n, pad |-> 0, kind |-> kind,
                    at |-> small, noise |-> 0]

\* The comparator of determineQRPosition: by y when the corners are more
\* than 100 pixels apart in y, else by x.
ComparePosition(a, b) ==
    LET aY == a.location.topLeftCorner.y
        bY == b.location.topLeftCorner.y
        aX == a.location.topLeftCorner.x
        bX == b.location.topLeftCorner.x
        dY == IF aY >= bY THEN aY - bY ELSE bY - aY
    IN  IF dY > 100 THEN aY - bY ELSE aX - bX

\* The comparator orders the codes consistently (Array.prototype.sort
\* defines the result only then).
ConsistentComparator(qrCodes) ==
    \A i, j, k \in 1..Len(qrCodes) :
        ( /\ ComparePosition(qrCodes[i], qrCodes[j]) <= 0
          /\ ComparePosition(qrCodes[j], qrCodes[k]) <= 0 )
        => ComparePosition(qrCodes[i], qrCodes[k]) <= 0

\* The orders [...allQRCodes].sort(comparator) can leave the codes in, as
\* lists of indices into allQRCodes: the stable order of a consistent
\* comparator, or any order when the comparator is not consistent.
SortOutcomes(allQRCodes) ==
    LET n == Len(allQRCodes)
    IN  IF n = 0 THEN {<<>>}
        ELSE IF ConsistentComparator(allQRCodes)
        THEN {p \in Permutations(1..n) :
                \A i, j \in 1..n :
                   i < j =>
                     LET c == ComparePosition(allQRCodes[p[i]],
                                              allQRCodes[p[j]])
                     IN  c < 0 \/ (c = 0 /\ p[i] < p[j])}
        ELSE Permutations(1..n)

\* determineQRPosition: the 1-based index of the first code of the sorted
\* copy that has the code's top-left corner, 0 when there is none.
determineQRPosition(qrCode, allQRCodes, sortedQRCodes) ==
    LET found == {i \in 1..Len(sortedQRCodes) :
                    allQRCodes[sortedQRCodes[i]].location.topLeftCorner
                      = qrCode.location.topLeftCorner}
    IN  IF found = {} THEN 0 ELSE SetMin(found)

\* parseStructuredAppendQRCodes for located codes, the sort leaving them in
\* the order sortedQRCodes.
parseLocatedQRCodes(qrCodes, sortedQRCodes) ==
    [i \in 1..Len(qrCodes) |->
        StructuredAppendQR(
            determineQRPosition(qrCodes[i], qrCodes, sortedQRCodes),
            qrCodes[i].data)]

\* qrCodes.filter(qr => estimatedSize > 400)
LargeQRCodes(qrCodes) ==
    SelectSeq(qrCodes, LAMBDA qr : qr.location.size > 400)

\* What extract_qr leaves behind: whether it threw and with what message,
\* the text it returned, and which scanners were run.
ExtractResult(threw, error, xmlData, zbarRun, zbarError, fallbackRun) ==
    [threw |-> threw, error |-> error, xmlData |-> xmlData,
     zbarRun |-> zbarRun, zbarError |-> zbarError,
     fallbackRun |-> fallbackRun]

\* The zbarimg block of extract_qr: the error it ends with ("" for none)
\* and the text it returns.
zbarBlock(zbar) ==
    LET qrLines == SelectSeq(zbar.lines, LAMBDA l : l.prefix = "QR-Code:")
        qrDataArray == [i \in 1..Len(qrLines) |-> qrLines[i].data]
        out == zbarPath(qrDataArray)
    IN  IF zbar.failed
        THEN [error |-> "Command failed: zbarimg", xmlData |-> <<>>]
        ELSE IF zbar.lines = <<>>
        THEN [error |-> "zbarimg found no QR codes", xmlData |-> <<>>]
        ELSE IF qrDataArray = <<>>
        THEN [error |-> "No QR code data found in zbar output",
              xmlData |-> <<>>]
        ELSE IF out.threw
        THEN [error |-> "inflateRaw", xmlData |-> <<>>]
        ELSE [error |-> "", xmlData |-> out.xmlData]

\* The catch block of extract_qr, the jsQR method.
jsQRBlock(qrCodes, sortedQRCodes) ==
    LET largeQRCodes == LargeQRCodes(qrCodes)
        structuredAppendData ==
            parseLocatedQRCodes(largeQRCodes, sortedQRCodes)
        combinedData == combineStructuredAppendData(structuredAppendData)
        inflated == InflateRaw(BufferFromBase64(combinedData))
    IN  IF Len(qrCodes) = 0
        THEN [error |-> "No QR codes found with either zbarimg or jsQR",
              xmlData |-> <<>>, structuredAppendData |-> <<>>,
              combinedData |-> <<>>]
        ELSE IF Len(structuredAppendData) = 0
        THEN [error |-> "No valid structured append QR codes found",
              xmlData |-> <<>>, structuredAppendData |-> <<>>,
              combinedData |-> <<>>]
        ELSE IF ~inflated.ok
        THEN [error |-> "inflateRaw", xmlData |-> <<>>,
              structuredAppendData |-> structuredAppendData,
              combinedData |-> combinedData]
        ELSE [error |-> "", xmlData |-> inflated.text,
              structuredAppendData |-> structuredAppendData,
              combinedData |-> combinedData]

NoFallback ==
    [error |-> "", xmlData |-> <<>>, structuredAppendData |-> <<>>,
     combinedData |-> <<>>]

\* extract_qr running the jsQR method after every call of zbarimg.
extract_qr_alwaysFallback(image, sortedQRCodes) ==
    LET zbar == zbarBlock(image.zbar)
        jsqr == jsQRBlock(image.qrCodes, sortedQRCodes)
    IN  IF ~image.converted
        THEN ExtractResult(TRUE, "All conversion attempts failed", <<>>,
                           FALSE, "", FALSE)
                @@ [fallback |-> NoFallback]
        ELSE ExtractResult(jsqr.error # "", jsqr.error, jsqr.xmlData,
                           TRUE, zbar.error, TRUE)
                @@ [fallback |-> jsqr]

\* extract_qr(pdfPath) for the page image of the document, the sort of
\* determineQRPosition leaving the large codes in the order sortedQRCodes.
extract_qr(image, sortedQRCodes) ==
    LET zbar == zbarBlock(image.zbar)
        jsqr == jsQRBlock(image.qrCodes, sortedQRCodes)
    IN  IF ~image.converted
        THEN ExtractResult(TRUE, "All conversion attempts failed", <<>>,
                           FALSE, "", FALSE)
                @@ [fallback |-> NoFallback]
        ELSE IF zbar.error = ""
        THEN ExtractResult(FALSE, "", zbar.xmlData, TRUE, "", FALSE)
                @@ [fallback |-> NoFallback]
        ELSE ExtractResult(jsqr.error # "", jsqr.error, jsqr.xmlData,
                           TRUE, zbar.error, TRUE)
                @@ [fallback |-> jsqr]

\* The source files named on the command line.
SourceFiles ==
    { [dir |-> "rsc", name |-> "example", ext |-> ".pdf"],
      [dir |-> "", name |-> "bill", ext |-> ".PDF"] }

\* path.join(parsedPath.dir, parsedPath.name + '.xml')
OutputFileOf(sourceFile) ==
    [dir |-> sourceFile.dir, name |-> sourceFile.name, ext |-> ".xml"]

\* What a run of index.ts leaves behind: its exit status, whether
\* extract_qr was called and what it gave, and the file written.
CliResult(exit, extract, outputPath, outputFile) ==
    [exit |-> exit, extract |-> extract, outputPath |-> outputPath,
     outputFile |-> outputFile]

\* index.ts writing the file before it calls extract_qr.
cliMain_writeFirst(args, exists, image, sortedQRCodes, writable) ==
    LET extract == extract_qr(image, sortedQRCodes)
    IN  IF Len(args) = 0
        THEN CliResult(1, NotCalled, args, NoFile)
        ELSE CliResult(IF exists /\ writable /\ ~extract.threw THEN 0 ELSE 1,
                       extract, OutputFileOf(args[1]), File(extract.xmlData))

\* main of index.ts: node dist/index.js <pdf-file>
cliMain(args, exists, image, sortedQRCodes, writable) ==
    LET extract == extract_qr(image, sortedQRCodes)
    IN  IF Len(args) = 0
        THEN CliResult(1, NotCalled, args, NoFile)
        ELSE IF ~exists
        THEN CliResult(1, NotCalled, OutputFileOf(args[1]), NoFile)
        ELSE IF extract.threw
        THEN CliResult(1, extract, OutputFileOf(args[1]), NoFile)
        ELSE IF ~writable
        THEN CliResult(1, extract, OutputFileOf(args[1]), NoFile)
        ELSE CliResult(0, extract, OutputFileOf(args[1]),
                       File(extract.xmlData))

InitExtract ==
    /\ IsExtractImage(batch, origin)
    /\ files = NoFiles
    /\ invocation = NoInvocations
    /\ pc = "start"
    /\ result = NoResult

\* extract_qr(pdfPath)
ExtractQr ==
    /\ pc = "start"
    /\ pc' = "extract_qr"
    /\ \E sortedQRCodes \in SortOutcomes(LargeQRCodes(batch.qrCodes)) :
          result' = extract_qr(batch, sortedQRCodes)
    /\ UNCHANGED <<origin, batch, files, invocation>>

\* node dist/index.js [<pdf-file>], the file being there or not, the
\* directory of the output being writable or not
CliMain ==
    /\ pc = "start"
    /\ pc' = "cliMain"
    /\ \E sortedQRCodes \in SortOutcomes(LargeQRCodes(batch.qrCodes)) :
         \E args \in {<<>>} \cup {<<f>> : f \in SourceFiles} :
           \E exists \in BOOLEAN, writable \in BOOLEAN :
             result' = [args |-> args, exists |-> exists,
                        writable |-> writable,
                        out |-> cliMain(args, exists, batch, sortedQRCodes,
                                        writable)]
    /\ UNCHANGED <<origin, batch, files, invocation>>

NextExtract ==
    \/ ExtractQr
    \/ CliMain

SpecExtract == InitExtract /\ [][NextExtract]_vars

----------------------------------------------------------------------------
(* Properties *)

\* The batch is a whole, fully addressed series and nothing else.
WholeSeries == origin.kind = "complete" /\ origin.noise = 0

\* The codes were not scanned in the order of their sequence indices.
OutOfOrder ==
    \E i, j \in 1..Len(batch) :
        /\ i < j
        /\ batch[i].structuredAppend.currentSequence
             > batch[j].structuredAppend.currentSequence

\* C1: a fully addressed series of two to six fragments, the last one padded
\* with spaces, given in any scan order: the sort-by-index path of main
\* inflates the original document, writes it, and reports the series
\* complete; decodeStructuredAppend reports it complete and its decodedData
\* inflates to the original document.
C1_RoundTrip ==
    (WholeSeries /\ origin.k \in 2..6) =>
      /\ (pc = "main" /\ result.path = "structured") =>
            /\ ~result.oracle.threw
            /\ result.oracle.decompressedData = origin.doc.text
            /\ result.xml = File(origin.doc.text)
            /\ result.complete
            /\ result.missingSequences = <<>>
      /\ pc = "decodeStructuredAppend" =>
            /\ result.isStructuredAppend
            /\ result.complete
            /\ result.missingSequences = <<>>
            /\ ~processDeflatedData(result.decodedData, TRUE).threw
            /\ processDeflatedData(result.decodedData, TRUE).decompressedData
                 = origin.doc.text

\* C1 witness: six padded fragments scanned out of order, reassembled by main.
C1_Witness ==
    /\ WholeSeries /\ origin.k = 6 /\ origin.pad >= 1 /\ OutOfOrder
    /\ pc = "main" /\ result.path = "structured"
    /\ result.complete
    /\ result.xml = File(origin.doc.text)

\* C2: a fully addressed series from which the fragment with one sequence
\* index was removed: the sort-by-index path reports exactly that index as
\* missing, reports the series incomplete, and main still calls the oracle.
C2_MissingDetected ==
    (origin.kind = "removed" /\ origin.noise = 0) =>
      /\ (pc = "main" /\ result.path = "structured") =>
            /\ result.expectedTotal = origin.k
            /\ result.missingSequences = <<origin.at - 1>>
            /\ ~result.complete
            /\ result.oracle # NotCalled
      /\ pc = "decodeStructuredAppend" =>
            /\ result.isStructuredAppend
            /\ result.expectedTotal = origin.k
            /\ result.missingSequences = <<origin.at - 1>>
            /\ ~result.complete

\* C2 witness: the fragment with index 0 is missing; main reports it and the
\* decompression it still attempts fails.
C2_Witness ==
    /\ origin.kind = "removed" /\ origin.at = 1 /\ origin.k >= 3
    /\ pc = "main" /\ result.path = "structured"
    /\ result.missingSequences = <<0>>
    /\ ~result.complete
    /\ result.oracle # NotCalled /\ result.oracle.threw

\* Fragment i of the batch carries Structured Append information.
Addressed(i) == batch[i].structuredAppend # NullSA

\* Some fragments of the batch are addressed and some are not.
MixedBatch ==
    /\ \E i \in 1..Len(batch) : Addressed(i)
    /\ \E i \in 1..Len(batch) : ~Addressed(i)

\* codes holds the addressed fragments of the batch, and only those, in
\* ascending order of their sequence indices.
AddressedOnesSorted(codes) ==
    /\ Len(codes) = Cardinality({i \in 1..Len(batch) : Addressed(i)})
    /\ \A i \in 1..Len(codes) :
          /\ codes[i].structuredAppend # NullSA
          /\ \E j \in 1..Len(batch) : batch[j] = codes[i]
    /\ \A i, j \in 1..Len(codes) :
          i < j => codes[i].structuredAppend.currentSequence
                     <= codes[j].structuredAppend.currentSequence

MarkupText(t) ==
    LET u == TrimStart(t)
    IN  u # <<>> /\ u[1] = "<"

\* C4 (as claimed): whatever main writes to <pdf>.xml has passed the
\* markup check.
C4_OnlyValidatedXml ==
    (pc = "main" /\ result.xml.written) => MarkupText(result.xml.content)

\* No fragment of the batch is addressed.
AllUnaddressed == \A i \in 1..Len(batch) : ~Addressed(i)

\* The fragments of the batch combined in the order p inflate to markup.
PassesOracle(p) ==
    LET try == TryOrder(batch, p)
    IN  try.decompressedData # <<>> /\ MarkupText(try.decompressedData)

\* The fragments of the batch combined in the order p inflate to a text
\* that starts with the XML prolog.
PassesProlog(p) == TryOrder(batch, p).accepted

C6_FirstSuccessWins ==
    (pc = "detectStructuredAppendOrder" /\ ~result.threw) =>
      LET orders == TestOrders(SortByLength(batch))
          n      == Len(result.tested)
      IN  /\ n \in 1..Len(orders)
          /\ result.tested = SubSeq(orders, 1, n)
          /\ \A c \in 1..(n - 1) : ~PassesProlog(orders[c])
          /\ result.found =>
                /\ PassesProlog(orders[n])
                /\ result.order = orders[n]
          /\ ~result.found =>
                /\ n = Len(orders)
                /\ ~PassesProlog(orders[n])

\* C6 witness: the search passed over failing orders, returned the first
\* accepted one, and left untried a later order that is accepted too.
C6_Witness ==
    /\ pc = "detectStructuredAppendOrder" /\ result.found
    /\ Len(result.tested) >= 2
    /\ \E c \in (Len(result.tested) + 1)..6 :
          PassesProlog(TestOrders(SortByLength(batch))[c])

\* C7 (as claimed): a text that inflates but does not begin with markup is
\* a failure, for the search and for processDeflatedData alike.
C7_NonMarkupRejected ==
    /\ (pc = "detectStructuredAppendOrder" /\ result.found) =>
          MarkupText(result.decompressedData)
    /\ (pc = "processDeflatedData" /\ ~result.out.threw) =>
          MarkupText(result.out.decompressedData)

\* The string holds a character that is neither of the base64 alphabet, nor
\* padding, nor white space.
HasNonBase64(s) ==
    \E i \in 1..Len(s) : s[i] \notin (B64Alphabet \cup {EQ} \cup WhiteSpace)

\* C8 (as claimed): a string with a character outside the base64 alphabet
\* makes processDeflatedData fail at the base64 step.
C8_MalformedSurfaced ==
    (pc = "processDeflatedData" /\ HasNonBase64(result.input)) =>
      /\ result.out.threw
      /\ result.out.failedAt = "base64"

OnlyTailTrimmed(s, t) ==
    /\ Len(t) <= Len(s)
    /\ SubSeq(s, 1, Len(t)) = t
    /\ \A i \in (Len(t) + 1)..Len(s) : s[i] \in WhiteSpace
    /\ t = <<>> \/ t[Len(t)] \notin WhiteSpace

\* The texts of the parsed entries in the order of their positions.
TextsByPosition(structuredAppendData) ==
    [r \in 1..Len(structuredAppendData) |->
        structuredAppendData[
            CHOOSE i \in 1..Len(structuredAppendData) :
                structuredAppendData[i].position = r].data]

\* C11 (as claimed): every trimming step applied to a combined payload
\* removes white space from the end of the string only (CR and LF, which
\* are stripped everywhere, set aside) and leaves a string that the same
\* step does not change: in combineStructuredAppendData, in the order
\* search and in processDeflatedData.
C11_TrimTouchesOnlyTail ==
    /\ pc = "combineStructuredAppendData" =>
          /\ OnlyTailTrimmed(Join(TextsByPosition(result.structuredAppendData)),
                             result.combinedData)
          /\ TrimEnd(result.combinedData) = result.combinedData
    /\ (pc = "detectStructuredAppendOrder" /\ result.found) =>
          /\ OnlyTailTrimmed(
                 StripCRLF(Join([i \in 1..3 |-> batch[result.order[i]].data])),
                 result.combinedData)
          /\ TrimEnd(StripCRLF(result.combinedData)) = result.combinedData
    /\ pc = "processDeflatedData" =>
          /\ OnlyTailTrimmed(StripCRLF(result.input), result.out.cleanedBase64)
          /\ CleanBase64(result.out.cleanedBase64) = result.out.cleanedBase64

\* C12: when the sort-by-index path finds sequences missing it still
\* combines the addressed fragments it has, in ascending order of their
\* indices; decodeStructuredAppend returns that combination flagged
\* incomplete, and main still calls processDeflatedData on it, saves the
\* combination and ends normally whether or not the inflation succeeds.
C12_IncompleteNonFatal ==
    /\ ( /\ pc = "decodeStructuredAppend"
          /\ result.isStructuredAppend
          /\ result.missingSequences # <<>> )
       => /\ ~result.complete
          /\ AddressedOnesSorted(result.codes)
          /\ result.decodedData = Join(DataOf(result.codes))
    /\ ( /\ pc = "main"
          /\ result.path = "structured"
          /\ result.missingSequences # <<>> )
       => /\ ~result.complete
          /\ result.exit = 0
          /\ AddressedOnesSorted(result.structuredAppendCodes)
          /\ result.oracle # NotCalled
          /\ result.oracle.cleanedBase64
               = StripAllWhiteSpace(Join(DataOf(result.structuredAppendCodes)))
          /\ result.base64 = File(Join(DataOf(result.structuredAppendCodes)))
          /\ result.oracle.threw => ~result.xml.written
          /\ ~result.oracle.threw =>
                result.xml = File(result.oracle.decompressedData)

\* C12 witness: the first fragment declares one more than the series has,
\* so a sequence is reported missing, and the inflation main still attempts
\* yields the document.
C12_Witness ==
    /\ origin.kind = "raisedTotal"
    /\ pc = "main" /\ result.path = "structured"
    /\ result.missingSequences # <<>>
    /\ ~result.complete
    /\ ~result.oracle.threw
    /\ result.xml = File(origin.doc.text)

\* C13 (as claimed): a run in which no source yielded a code ends in a
\* failure and leaves no output: main exits with status 1 and writes no
\* file, and decodeMultipleAndSave saves nothing.
C13_EmptyBatchFails ==
    batch = <<>> =>
      /\ pc = "main" =>
            /\ result.exit = 1
            /\ ~result.xml.written
            /\ ~result.base64.written
      /\ pc = "decodeMultipleAndSave" => ~result.outputFile.written

\* Two addressed fragments of the batch declare different totals.
TotalsDisagree ==
    \E i, j \in 1..Len(batch) :
        /\ Addressed(i) /\ Addressed(j)
        /\ batch[i].structuredAppend.totalSequence
             # batch[j].structuredAppend.totalSequence

\* C14 (as claimed): a batch whose addressed fragments disagree on the
\* total is not reassembled by the sort-by-index path.
C14_InconsistentDowngraded ==
    TotalsDisagree =>
      /\ pc = "main" => result.path # "structured"
      /\ pc = "decodeStructuredAppend" => ~result.isStructuredAppend

\* C15 (as claimed): whatever the batch, the object decodeStructuredAppend
\* returns carries the seven documented fields, missingSequences being an
\* array and complete a boolean.
C15_DocumentedShape ==
    pc = "decodeStructuredAppend" =>
      /\ {"isStructuredAppend", "totalCodes", "expectedTotal",
          "missingSequences", "complete", "decodedData", "codes"}
            \subseteq DOMAIN result
      /\ result.complete \in BOOLEAN
      /\ DOMAIN result.missingSequences = 1..Len(result.missingSequences)

\* C16 (as claimed): of two extractions running at the same time for
\* different documents, each returns what it returns when it runs alone:
\* extract_qr the inflated text of its own document, decodeQRCodesFromPDF
\* the codes of its own document, and neither throws.
C16_InvocationsIsolated ==
    \A i \in Invocations :
        /\ invocation[i].pc # "threw"
        /\ (invocation[i].pc = "returned" /\ invocation[i].fn = "extract_qr") =>
              invocation[i].xmlData = invocation[i].pdfPath.text
        /\ ( /\ invocation[i].pc \in {"cleanup", "returned"}
              /\ invocation[i].fn = "decodeQRCodesFromPDF" ) =>
              invocation[i].qrCodes = PageCodes(invocation[i].pdfPath)

\* The sequence indices observed on the addressed fragments of the batch.
ObservedSequences ==
    {batch[i].structuredAppend.currentSequence :
        i \in {j \in 1..Len(batch) : Addressed(j)}}

\* The total declared by the fragment that sorting puts first: of the
\* addressed fragments with the lowest index, the one scanned first.
FirstSortedTotal ==
    LET lowest == SetMin(ObservedSequences)
        first  == SetMin({i \in 1..Len(batch) :
                            /\ Addressed(i)
                            /\ batch[i].structuredAppend.currentSequence = lowest})
    IN  batch[first].structuredAppend.totalSequence

\* seq lists the members of S in ascending order, each once.
AscendingListOf(seq, S) ==
    /\ \A i, j \in 1..Len(seq) : i < j => seq[i] < seq[j]
    /\ {seq[i] : i \in 1..Len(seq)} = S

\* r reports the series as the definition says.
ReportsMissingAsDefined(r) ==
    /\ r.expectedTotal = FirstSortedTotal + 1
    /\ AscendingListOf(r.missingSequences,
                       (0..FirstSortedTotal) \ ObservedSequences)
    /\ r.complete <=> (r.missingSequences = <<>>)

\* C17: on the sort-by-index path expectedTotal is the total declared by
\* the first sorted fragment plus one, missingSequences is the ascending
\* list of exactly the indices below expectedTotal that no fragment
\* carries, and complete holds exactly when that list is empty, however
\* many fragments were received.
C17_MissingAsDefined ==
    /\ (pc = "decodeStructuredAppend" /\ result.isStructuredAppend) =>
          ReportsMissingAsDefined(result)
    /\ (pc = "main" /\ result.path = "structured") =>
          ReportsMissingAsDefined(result)

\* C17 witness: the first fragment declares one less than the series has;
\* the series is reported complete although more fragments were received
\* than expected and one index is out of range.
C17_Witness ==
    /\ origin.kind = "loweredTotal"
    /\ pc = "decodeStructuredAppend" /\ result.isStructuredAppend
    /\ result.complete
    /\ result.totalCodes > result.expectedTotal
    /\ \E i \in ObservedSequences : i >= result.expectedTotal

\* C18 (as claimed): the search accepts an inflated text exactly when
\* processDeflatedData classifies it as XML, namely when the text begins,
\* after leading white space, with the XML prolog or an opening angle
\* bracket: an order the search passed over does not inflate to such a
\* text, the text it returns is one, and isXML tells the same.
C18_OneOracle ==
    /\ (pc = "detectStructuredAppendOrder" /\ ~result.threw) =>
          /\ \A c \in 1..Len(result.tested) :
                (~result.found \/ c < Len(result.tested))
                   => ~PassesOracle(result.tested[c])
          /\ result.found => MarkupText(result.decompressedData)
    /\ (pc = "processDeflatedData" /\ ~result.out.threw) =>
          (result.out.isXML <=> MarkupText(result.out.decompressedData))

\* The string holds no CR and no LF and does not end in white space.
IsCleaned(t) ==
    /\ \A i \in 1..Len(t) : t[i] \notin CRLF
    /\ t = <<>> \/ t[Len(t)] \notin WhiteSpace

\* C19 (as claimed): what is handed to the base64 decoder is the input
\* without its CR and LF characters and without the white space at its end,
\* every other character kept, spaces and tabs before the end included:
\* in processDeflatedData and in the order search.
C19_CleaningKeepsInterior ==
    /\ pc = "processDeflatedData" =>
          /\ IsCleaned(result.out.cleanedBase64)
          /\ result.out.cleanedBase64 = TrimEnd(StripCRLF(result.input))
    /\ (pc = "detectStructuredAppendOrder" /\ result.found) =>
          /\ IsCleaned(result.combinedData)
          /\ result.combinedData =
                TrimEnd(StripCRLF(
                    Join([i \in 1..3 |-> batch[result.order[i]].data])))

FullyAddressed ==
    /\ Len(batch) > 0
    /\ \A i \in 1..Len(batch) : Addressed(i)

IndicesUnique(codes) ==
    \A i, j \in 1..Len(codes) :
        codes[i].structuredAppend.currentSequence
          = codes[j].structuredAppend.currentSequence => i = j

\* C23: in the combined payload of the sort-by-index path no sequence
\* index contributes more than one fragment: the fragments that
\* decodeStructuredAppend and main concatenate carry pairwise different
\* sequence indices, and the payload is no longer than one fragment for
\* every index received.
C23_IndicesUniqueInPayload ==
    /\ (pc = "decodeStructuredAppend" /\ result.isStructuredAppend) =>
          /\ IndicesUnique(result.codes)
          /\ origin.kind = "duplicated" =>
                Len(result.decodedData) <= Len(origin.doc.enc) + origin.pad
    /\ (pc = "main" /\ result.path = "structured") =>
          /\ IndicesUnique(result.structuredAppendCodes)
          /\ origin.kind = "duplicated" =>
                Len(result.base64.content)
                  <= Len(origin.doc.enc) + origin.pad

\* C24: a reassembly that fails is reported with the payload it attempted:
\* after a failed inflation on the sort-by-index path main has saved the
\* joined texts unchanged, and a search that has run out of orders returns
\* the combination of one of the orders it tried.
C24_FailureCarriesPayload ==
    /\ (pc = "main" /\ result.path = "structured" /\ result.oracle.threw) =>
          result.base64 = File(Join(DataOf(result.structuredAppendCodes)))
    /\ (pc = "detectStructuredAppendOrder"
          /\ ~result.threw /\ ~result.found) =>
          \E c \in 1..Len(result.tested) :
              result.combinedData = CombineInOrder(batch, result.tested[c])

\* C25: for a batch of exactly three codes, of any lengths, the list of
\* orders the search goes through has six entries, pairwise different, and
\* they are the six permutations of the three codes; the orders tried are
\* a prefix of that list, the whole list when nothing is returned; so the
\* search returns nothing only if no order of the three is accepted, and an
\* order it returns is accepted.
C25_SixPermutationsOfThree ==
    (pc = "detectStructuredAppendOrder" /\ Len(batch) = 3) =>
      LET testOrders == TestOrders(SortByLength(batch))
      IN  /\ Len(testOrders) = 6
          /\ \A c, d \in 1..6 : testOrders[c] = testOrders[d] => c = d
          /\ {testOrders[c] : c \in 1..6} = Permutations(1..3)
          /\ ~result.threw
          /\ result.tested = SubSeq(testOrders, 1, Len(result.tested))
          /\ ~result.found =>
                /\ result.tested = testOrders
                /\ \A p \in Permutations(1..3) : ~PassesProlog(p)
          /\ result.found => PassesProlog(result.order)

\* C25 witness: three fragments of equal length, scanned in an order that
\* is not accepted; the search returns another order, which is.
C25_Witness ==
    /\ pc = "detectStructuredAppendOrder"
    /\ Len(batch) = 3
    /\ \A i \in 1..3 : Len(batch[i].data) = Len(batch[1].data)
    /\ ~PassesProlog(<<1, 2, 3>>)
    /\ result.found
    /\ result.order # <<1, 2, 3>>
    /\ PassesProlog(result.order)

\* order names every code of the batch exactly once.
CoversBatch(order) ==
    /\ Len(order) = Len(batch)
    /\ {order[i] : i \in 1..Len(order)} = 1..Len(batch)

RECURSIVE LengthBefore(_)
LengthBefore(i) ==
    IF i = 1 THEN 0 ELSE LengthBefore(i - 1) + Len(batch[i - 1].data)

\* t is the texts of the batch one after the other in scan order, every
\* character of every text kept.
TextsInScanOrder(t) ==
    /\ Len(t) = LengthBefore(Len(batch) + 1)
    /\ \A i \in 1..Len(batch) :
          \A j \in 1..Len(batch[i].data) :
              t[LengthBefore(i) + j] = batch[i].data[j]

\* C27: when no code found carries Structured Append information,
\* decodeStructuredAppend returns isStructuredAppend = false, totalCodes =
\* the number of images in which a code was found, and decodedData = the
\* texts of the codes one after the other in the order of the image paths,
\* white space at either end included.
C27_PlainResult ==
    (pc = "decodeStructuredAppendImages" /\ AllUnaddressed) =>
      /\ ~result.out.isStructuredAppend
      /\ result.out.totalCodes = Len(batch)
      /\ result.out.totalCodes
           = Cardinality({i \in 1..Len(result.imagePaths) :
                             result.imagePaths[i].found})
      /\ TextsInScanOrder(result.out.decodedData)
      /\ origin.kind = "text" => result.out.decodedData = origin.doc.enc

\* C27 witness: three unaddressed codes and an image without a code
\* between them, the first text starting and the last ending with white
\* space, which the result keeps.
C27_Witness ==
    /\ pc = "decodeStructuredAppendImages"
    /\ origin.kind = "text" /\ Len(batch) = 3
    /\ result.imagePaths[2] = NoSymbol
    /\ batch[1].data[1] \in WhiteSpace
    /\ batch[3].data[Len(batch[3].data)] \in WhiteSpace
    /\ ~result.out.isStructuredAppend
    /\ result.out.totalCodes = 3
    /\ result.out.decodedData = origin.doc.enc

\* C28: in extract_qr the jsQR method runs exactly when the zbarimg block
\* ended with an error: zbarimg failing, printing nothing or no QR line
\* always does, and so does a failed inflation of the joined texts; when
\* the zbarimg block succeeds its inflated text is returned and the jsQR
\* method is not run; when the jsQR method runs, extract_qr throws exactly
\* when it does, with its error, and returns its text otherwise.
C28_FallbackChain ==
    pc = "extract_qr" =>
      /\ result.fallbackRun <=> (result.zbarRun /\ result.zbarError # "")
      /\ origin.kind = "noImage" =>
            result.threw /\ ~result.zbarRun /\ ~result.fallbackRun
      /\ origin.kind \in {"error", "empty", "noQrLine"} => result.fallbackRun
      /\ (origin.kind = "inOrder" /\ origin.k >= 1) =>
            /\ ~result.fallbackRun
            /\ ~result.threw
            /\ result.xmlData = origin.doc.text
      /\ (origin.kind \in {"inOrder", "reversed"} /\ origin.k = 0) =>
            result.fallbackRun
      /\ (origin.kind \in {"inOrder", "reversed"} /\ origin.k >= 1
            /\ result.fallbackRun) =>
            result.zbarError = "inflateRaw"
      /\ (result.zbarRun /\ ~result.fallbackRun) =>
            /\ ~result.threw
            /\ result.error = ""
            /\ result.fallback = NoFallback
            /\ \E d \in Docs : result.xmlData = d.text
      /\ result.fallbackRun =>
            /\ result.threw <=> result.fallback.error # ""
            /\ result.error = result.fallback.error
            /\ result.xmlData = result.fallback.xmlData

\* C28 witness: zbarimg prints the texts of three codes in an order whose
\* combination does not inflate; the jsQR method runs and returns the
\* document.
C28_Witness ==
    /\ pc = "extract_qr"
    /\ origin.kind = "reversed" /\ origin.k = 3
    /\ result.zbarError = "inflateRaw"
    /\ result.fallbackRun
    /\ ~result.threw
    /\ result.xmlData = origin.doc.text

\* C29: index.ts writes a file only after extract_qr has returned without
\* throwing: the file is the returned text, in the directory and with the
\* base name of the source file and the extension .xml, and the run ends
\* with status 0; without an argument, for a source file that is not
\* there, and when extract_qr throws, the run ends with status 1 and
\* nothing is written.
C29_CliWritesAfterSuccess ==
    pc = "cliMain" =>
      /\ result.out.outputFile.written =>
            /\ Len(result.args) = 1
            /\ result.exists
            /\ result.out.extract # NotCalled
            /\ ~result.out.extract.threw
            /\ result.out.outputFile = File(result.out.extract.xmlData)
            /\ result.out.outputPath.dir = result.args[1].dir
            /\ result.out.outputPath.name = result.args[1].name
            /\ result.out.outputPath.ext = ".xml"
      /\ result.out.exit = 0 <=> result.out.outputFile.written
      /\ result.out.exit \in {0, 1}
      /\ ( \/ Len(result.args) = 0
           \/ ~result.exists
           \/ origin.kind = "noImage"
           \/ result.out.extract.threw ) =>
            /\ result.out.exit = 1
            /\ result.out.outputFile = NoFile
      /\ (Len(result.args) = 0 \/ ~result.exists) =>
            result.out.extract = NotCalled

\* C29 witness: rsc/example.pdf, three codes read by zbarimg; the document
\* is written to rsc/example.xml and the run ends with status 0.
C29_Witness ==
    /\ pc = "cliMain"
    /\ origin.kind = "inOrder" /\ origin.k = 3
    /\ Len(result.args) = 1 /\ result.args[1].dir = "rsc"
    /\ result.out.exit = 0
    /\ result.out.outputPath = [dir |-> "rsc", name |-> "example", ext |-> ".xml"]
    /\ result.out.outputFile = File(origin.doc.text)

\* a comes before b in row-major order: above it by more than 100 pixels,
\* or in the same band of 100 pixels and to the left of it.
RowMajorBefore(a, b) ==
    LET aY == a.location.topLeftCorner.y
        bY == b.location.topLeftCorner.y
    IN  IF aY - bY > 100 \/ bY - aY > 100 THEN aY < bY
        ELSE a.location.topLeftCorner.x < b.location.topLeftCorner.x

\* The number of characters of the entries of sad placed before position.
RECURSIVE LengthBelow(_, _, _)
LengthBelow(sad, position, i) ==
    IF i > Len(sad) THEN 0
    ELSE (IF sad[i].position < position THEN Len(sad[i].data) ELSE 0)
         + LengthBelow(sad, position, i + 1)

\* C30: in the jsQR method, the positions given to the large codes are a
\* permutation of 1..n, no two codes sharing one; a code that comes before
\* another in row-major order has the smaller position; and the combined
\* text holds the text of every code exactly once, in the order of the
\* positions.
C30_RowMajorPermutation ==
    ( /\ pc = "extract_qr"
      /\ result.fallbackRun
      /\ Len(LargeQRCodes(batch.qrCodes)) >= 1 ) =>
      LET large == LargeQRCodes(batch.qrCodes)
          sad == result.fallback.structuredAppendData
          n == Len(large)
      IN  /\ Len(sad) = n
          /\ {sad[i].position : i \in 1..n} = 1..n
          /\ \A i, j \in 1..n : sad[i].position = sad[j].position => i = j
          /\ \A i \in 1..n : sad[i].data = large[i].data
          /\ \A i, j \in 1..n :
                RowMajorBefore(large[i], large[j]) =>
                  sad[i].position < sad[j].position
          /\ Len(result.fallback.combinedData) = LengthBelow(sad, n + 1, 1)
          /\ \A i \in 1..n :
                \A c \in 1..Len(sad[i].data) :
                   result.fallback.combinedData[
                       LengthBelow(sad, sad[i].position, 1) + c]
                     = sad[i].data[c]

====
